---------------------------- MODULE Spec2Model ----------------------------
(***************************************************************************)
(* A model of the nl2sql task pipeline: the execution-guided repair loop   *)
(* (CoreEvalFix), the selection tasks (CoreTableSelector,                  *)
(* CoreColumnSelector, CoreJoinSelector) and the SQL generation task       *)
(* (CoreSqlGenerator).                                                     *)
(*                                                                         *)
(* Python lists are modelled as sequences, so the Python index i is the    *)
(* index i + 1 here: trials[0] in the source is trials[1] in the model.    *)
(***************************************************************************)
EXTENDS Integers, Sequences, FiniteSets, TLC

(***************************************************************************)
(* Bounds of the model.                                                    *)
(***************************************************************************)
\* the largest num_retries a CoreEvalFix is configured with
MaxRetries == 3

\* the longest text the LLM answers to the batched table selection prompt
MaxResponseLen == 4

\* the most names one answer to a column or join selection prompt holds
MaxNamed == 2

\* the longest text, in words, the LLM answers to a generation prompt
MaxTextLen == 3

\* the longest raw selector string, in characters, handed to EntitySet
MaxSelectorLen == 6

\* the most selectors one EntitySet is built from
MaxSelectors == 2

\* the most pieces the text of a generated query is made of
MaxPieces == 3

(***************************************************************************)
(* The state.                                                              *)
(***************************************************************************)
\* The state of one call of CoreEvalFix.
VARIABLES
    num_retries,        \* CoreEvalFix.num_retries
    dialect,            \* db.db.dialect
    template_map,       \* keys of prompt.dialect_prompt_template_map
    query,              \* the query argument of __call__
    pc,                 \* where the call is
    trials,             \* the local list trials
    intermediate_steps, \* the local list intermediate_steps
    attempt_number,     \* tenacity's retry_state.attempt_number
    trial_id,           \* the local trial_id of the running evaluate()
    output,             \* the local output of __call__
    result,             \* the CoreEvalFixResult returned
    db_calls,           \* number of db.execute calls made so far
    llm_calls,          \* number of llm.generate calls made so far
    executed,           \* the queries handed to db.execute, in order
    last_outcome,       \* how the latest db.execute ended
    no_template         \* the ValueError of line 204 has been raised

efvars == <<num_retries, dialect, template_map, query, pc, trials,
            intermediate_steps, attempt_number, trial_id, output, result,
            db_calls, llm_calls, executed, last_outcome, no_template>>

\* The state of one call of a selector: CoreTableSelector,
\* CoreColumnSelector or CoreJoinSelector.
VARIABLES
    sel_task,            \* which selector is called
    call_for_each_table, \* prompt.call_for_each_table of the table selector
    sel_parser,          \* prompt.parser is not None
    usable_tables,       \* db.db._usable_tables
    descriptor,          \* db.descriptor: table name -> col_descriptor keys
    allowed_joins,       \* the foreign-key joins of db.db._metadata
    sel_pc,              \* where the call is
    targets,             \* the targets the loop has still to visit
    selected,            \* the local list selected_tables / selected_columns
    sel_steps,           \* the local list intermediate_steps
    sel_llm_calls,       \* number of llm.generate calls made so far
    sel_error,           \* the exception that left the call
    sel_result           \* the result object returned

\* what the call is given: the selector's configuration and the database
selcfg == <<sel_task, call_for_each_table, sel_parser, usable_tables,
            descriptor, allowed_joins>>

selvars == <<selcfg, sel_pc, targets, selected, sel_steps, sel_llm_calls,
             sel_error, sel_result>>

\* The state of one call of CoreSqlGenerator.
VARIABLES
    gen_prompt,          \* the prompt the generator is configured with
    gen_dialect,         \* db.db.dialect
    gen_template_map,    \* keys of prompt.dialect_prompt_template_map
    gen_pc,              \* where the call is
    gen_template,        \* the local prompt_template (its key in the map)
    gen_generations,     \* llm_response.generations
    gen_llm_calls,       \* number of llm.generate calls made so far
    gen_error,           \* the exception that left the call
    gen_result           \* the CoreSqlGenratorResult returned

gencfg == <<gen_prompt, gen_dialect, gen_template_map>>

genvars == <<gencfg, gen_pc, gen_template, gen_generations, gen_llm_calls,
             gen_error, gen_result>>

\* The state of one call of Database.filter, which builds an EntitySet.
VARIABLES
    dataset_schema,      \* EntitySet.dataset_schema: {self.name: self.dbschema}
    filters,             \* the filters argument: a list of selectors
    filter_type,         \* the filter_type argument: "only" or "exclude"
    ids,                 \* EntitySet.ids of the entity set being built
    ent_pc,              \* where the call is
    ent_error,           \* the exception that left the call
    exclude_entities,    \* exclude_entities.ids of the Database returned
    filtered_set         \* EntitySet.filter: key, value and the ids returned

entcfg == <<dataset_schema, filters, filter_type>>

entvars == <<entcfg, ids, ent_pc, ent_error, exclude_entities, filtered_set>>

\* The state of one call of CoreLinearExecutor.
VARIABLES
    core_table_selector,       \* self.core_table_selector is not None
    core_column_selector,      \* self.core_column_selector is not None
    core_eval_fix,             \* self.core_eval_fix is not None
    constraints,               \* table -> its columns that are in a constraint
    database,                  \* the local database: the current view
    result_available_tables,   \* the locals of __call__ that become the
    result_selected_tables,    \* fields of the CoreLinearExecutorResult
    result_available_columns,
    result_selected_columns,
    result_sg,                 \* result_sg.generated_query
    result_generated_query,
    result_intermediate_steps, \* the keys of the entries, in order
    lin_pc,                    \* where the call is
    stages,                    \* the stages entered so far, in order
    eval_fix_raised,           \* the except branch of line 124 was taken
    lin_error                  \* the exception that left the call

lincfg == <<core_table_selector, core_column_selector, core_eval_fix,
            constraints>>

linvars == <<lincfg, database, result_available_tables,
             result_selected_tables, result_available_columns,
             result_selected_columns, result_sg, result_generated_query,
             result_intermediate_steps, lin_pc, stages, eval_fix_raised,
             lin_error>>

vars == <<efvars, selvars, genvars, entvars, linvars>>

\* what a call of one task leaves alone: the state of the other tasks
ef_frame == <<selvars, genvars, entvars, linvars>>

sel_frame == <<efvars, genvars, entvars, linvars>>

gen_frame == <<efvars, selvars, entvars, linvars>>

ent_frame == <<efvars, selvars, genvars, linvars>>

lin_frame == <<efvars, selvars, genvars, entvars>>


(***************************************************************************)
(* Values shared by the tasks.                                             *)
(***************************************************************************)
\* Python's None
None == "<None>"

\* SQL dialects of the connected database (db.db.dialect)
Dialects == {"sqlite", "postgres"}

\* the keys a dialect_prompt_template_map may hold
TemplateKeys == {"default", "sqlite"}

LookupTemplateDefaultFirst(map, d) ==
    IF "default" \in map THEN "default"
    ELSE IF d \in map THEN d
    ELSE None

\* dict.get(dialect, dict.get("default")): the key of the template that the
\* lookup returns, None when neither key is registered
LookupTemplate(map, d) ==
    IF d \in map THEN d
    ELSE IF "default" \in map THEN "default"
    ELSE None

\* the last element of a non-empty Python list: l[-1]
Last(l) == l[Len(l)]

(***************************************************************************)
(* The LLM of a task that produces a query (CoreEvalFix,                   *)
(* CoreSqlGenerator).  llm.generate returns an LLMResult whose             *)
(* generations field is a list (one entry per prompt) of lists (one entry  *)
(* per candidate) of texts.  A text is either well formed for the          *)
(* prompt's parser or not; a well formed text carries a query.             *)
(***************************************************************************)
Queries == {"q0", "q1", "q2"}

QueryTexts == [wellformed : BOOLEAN, query : Queries]

\* generations[0][0]: the first candidate of the first generation; Python
\* raises IndexError when either list is empty
HasFirstCandidate(generations) ==
    /\ Len(generations) >= 1
    /\ Len(generations[1]) >= 1

\* the last candidate of the last generation
LastCandidate(generations) ==
    generations[Len(generations)][Len(generations[Len(generations)])]

FirstCandidate(generations) == generations[1][1]

\* prompt.parser.parse(raw_response): raises on a text that is not well
\* formed, else returns the parsed fields
CanParse(text) == text.wellformed

\* prompt.post_processor(parsed_response) of the curated prompts:
\* lambda x: x.get("query")
PostProcessQuery(text) == text.query

(***************************************************************************)
(* CoreEvalFix.__call__                                                    *)
(***************************************************************************)
\* what the LLM may answer to one repair prompt: it raises, or returns an
\* LLMResult with no generation, an empty generation or one candidate
RepairGenerations ==
    {<<>>, << <<>> >>} \cup { << <<t>> >> : t \in QueryTexts }

\* how db.execute(sql) may end: it returns, it raises a
\* sqlalchemy.exc.DatabaseError, or it raises another exception
ExecuteOutcomes == {"ok", "DatabaseError", "OtherError"}

\* tenacity.stop_after_attempt(max_attempt_number): stop once
\* attempt_number >= max_attempt_number
StopAfterAttempt(attempt, max_attempt_number) == attempt >= max_attempt_number

\* no CoreEvalFixResult has been built yet
NoResult ==
    [original_query |-> None, modified_query |-> None,
     intermediate_steps |-> <<>>]

EvalFixInit ==
    /\ num_retries \in 0..MaxRetries
    /\ dialect \in Dialects
    /\ template_map \in SUBSET TemplateKeys
    /\ query \in Queries
    /\ pc = "idle"
    /\ trials = <<>>
    /\ intermediate_steps = <<>>
    /\ attempt_number = 0
    /\ trial_id = 0
    /\ output = None
    /\ result = NoResult
    /\ db_calls = 0
    /\ llm_calls = 0
    /\ executed = <<>>
    /\ last_outcome = "none"
    /\ no_template = FALSE

\* an evaluate that returns the query it was first given
SuccessOutputOriginal(ts) == ts[1]

\* line 250: evaluate returns sql, which is trials[-1] of line 173
SuccessOutput(ts) == Last(ts)

\* a fallback to the original query
FailureOutputOriginal(ts) == ts[1]

\* line 258: the output once the wrapper has given up
FailureOutput(ts) == Last(ts)

\* a wrapper that loses count of its attempts
NextAttemptStuck(attempt) == IF attempt = 0 THEN 1 ELSE attempt

\* the retrying wrapper's count of the attempts it has started
NextAttempt(attempt) == attempt + 1

\* lines 161-166 and the first call of the retrying wrapper of evaluate
Call ==
    /\ pc = "idle"
    /\ trials' = <<query>>
    /\ intermediate_steps' = <<>>
    /\ attempt_number' = NextAttempt(0)
    /\ pc' = "evaluate"
    /\ UNCHANGED <<num_retries, dialect, template_map, query, trial_id,
                   output, result, db_calls, llm_calls, executed,
                   last_outcome, no_template>>
    /\ UNCHANGED ef_frame

\* lines 172-178 and 248-250: evaluate() executes trials[-1]
Execute ==
    /\ pc = "evaluate"
    /\ trial_id' = Len(trials)
    /\ db_calls' = db_calls + 1
    /\ executed' = Append(executed, Last(trials))
    /\ \E outcome \in ExecuteOutcomes :
        /\ last_outcome' = outcome
        /\ \/ /\ outcome = "ok"
              \* evaluate returns sql, the wrapper returns it: line 254
              /\ output' = SuccessOutput(trials)
              /\ pc' = "succeeded"
           \/ /\ outcome = "DatabaseError"
              /\ pc' = "fixing"
              /\ UNCHANGED output
           \/ /\ outcome = "OtherError"
              \* not caught inside evaluate: the attempt ends with it
              /\ pc' = "attempt_failed"
              /\ UNCHANGED output
    /\ UNCHANGED <<num_retries, dialect, template_map, query, trials,
                   intermediate_steps, attempt_number, result, llm_calls,
                   no_template>>
    /\ UNCHANGED ef_frame

\* lines 199-213: the prompt template for the dialect, ValueError if none
PreparePrompt ==
    /\ pc = "fixing"
    /\ IF LookupTemplate(template_map, dialect) = None
       THEN /\ no_template' = TRUE
            /\ pc' = "attempt_failed"
       ELSE /\ pc' = "prompted"
            /\ UNCHANGED no_template
    /\ UNCHANGED <<num_retries, dialect, template_map, query, trials,
                   intermediate_steps, attempt_number, trial_id, output,
                   result, db_calls, llm_calls, executed, last_outcome>>
    /\ UNCHANGED ef_frame

\* a record keyed by the index of the trial it appends
RecordTrialNextKey(steps, tid, candidate) ==
    Append(steps, [trial_id |-> tid + 1, processed_response |-> candidate])

\* lines 232-245: the step record and the new trial
RecordTrial(steps, tid, candidate) ==
    Append(steps, [trial_id |-> tid, processed_response |-> candidate])

\* lines 215-247: one llm.generate call; every way out of it is an
\* exception that ends this attempt of evaluate
Generate ==
    /\ pc = "prompted"
    /\ llm_calls' = llm_calls + 1
    /\ pc' = "attempt_failed"
    /\ \/ \* llm.generate itself raises
          UNCHANGED <<trials, intermediate_steps, trial_id>>
       \/ \E generations \in RepairGenerations :
            IF /\ HasFirstCandidate(generations)
               /\ CanParse(FirstCandidate(generations))
            THEN LET processed_response ==
                         PostProcessQuery(FirstCandidate(generations))
                 IN /\ intermediate_steps' =
                          RecordTrial(intermediate_steps, trial_id,
                                      processed_response)
                    /\ trials' = Append(trials, processed_response)
                    /\ trial_id' = trial_id + 1
            ELSE \* ValueError of line 222, or the parser's exception
                 UNCHANGED <<trials, intermediate_steps, trial_id>>
    /\ UNCHANGED <<num_retries, dialect, template_map, query,
                   attempt_number, output, result, db_calls, executed,
                   last_outcome, no_template>>
    /\ UNCHANGED ef_frame

\* lines 168-170: the retrying wrapper calls evaluate again
Retry ==
    /\ pc = "attempt_failed"
    /\ ~StopAfterAttempt(attempt_number, num_retries)
    /\ attempt_number' = NextAttempt(attempt_number)
    /\ pc' = "evaluate"
    /\ UNCHANGED <<num_retries, dialect, template_map, query, trials,
                   intermediate_steps, trial_id, output, result, db_calls,
                   llm_calls, executed, last_outcome, no_template>>
    /\ UNCHANGED ef_frame

\* lines 168-170 and 256-258: the wrapper gives up with RetryError, which
\* __call__ catches
GiveUp ==
    /\ pc = "attempt_failed"
    /\ StopAfterAttempt(attempt_number, num_retries)
    /\ output' = FailureOutput(trials)
    /\ pc' = "failed"
    /\ UNCHANGED <<num_retries, dialect, template_map, query, trials,
                   intermediate_steps, attempt_number, trial_id, result,
                   db_calls, llm_calls, executed, last_outcome, no_template>>
    /\ UNCHANGED ef_frame

\* lines 260-270: the result object
Finish ==
    /\ pc \in {"succeeded", "failed"}
    /\ result' = [original_query |-> query,
                  modified_query |-> output,
                  intermediate_steps |-> intermediate_steps]
    /\ pc' = "done"
    /\ UNCHANGED <<num_retries, dialect, template_map, query, trials,
                   intermediate_steps, attempt_number, trial_id, output,
                   db_calls, llm_calls, executed, last_outcome, no_template>>
    /\ UNCHANGED ef_frame

(***************************************************************************)
(* Strings.  A string is a sequence of characters, so that the string      *)
(* methods the selectors use are computed character by character.          *)
(***************************************************************************)
Space == " "

Comma == ","

SetMin(S) == CHOOSE x \in S : \A y \in S : x <= y

SetMax(S) == CHOOSE x \in S : \A y \in S : x >= y

\* the elements of a Python list, as set(l) gives them
Range(l) == {l[i] : i \in 1..Len(l)}

\* the lists of at most n elements of S
SeqsUpTo(S, n) == UNION {[1..k -> S] : k \in 0..n}

LowerChar(c) ==
    CASE c = "A" -> "a"
      [] c = "B" -> "b"
      [] c = "X" -> "x"
      [] OTHER -> c

\* str.lower()
Lower(s) == [i \in 1..Len(s) |-> LowerChar(s[i])]

\* a strip that leaves the string as it is
StripNothing(s) == s

\* str.strip()
Strip(s) ==
    LET keep == {i \in 1..Len(s) : s[i] # Space}
    IN IF keep = {} THEN <<>> ELSE SubSeq(s, SetMin(keep), SetMax(keep))

\* str.replace(" ", "")
RemoveSpaces(s) == SelectSeq(s, LAMBDA c : c # Space)

\* str.split(sep): the pieces between the separators, empty ones included
RECURSIVE SplitOn(_, _)
SplitOn(s, sep) ==
    LET seps == {i \in 1..Len(s) : s[i] = sep}
    IN IF seps = {} THEN <<s>>
       ELSE <<SubSeq(s, 1, SetMin(seps) - 1)>>
            \o SplitOn(SubSeq(s, SetMin(seps) + 1, Len(s)), sep)

\* str.split(",")
Split(s) == SplitOn(s, Comma)

\* [i.strip() for i in l]
StripEach(l) == [i \in 1..Len(l) |-> Strip(l[i])]

(***************************************************************************)
(* CoreTableSelector.__call__                                              *)
(***************************************************************************)
\* the table names of the databases the selectors are called on
TableNames == {<<"A">>, <<"a">>, <<"B">>}

\* the characters of the LLM's answer to the batched prompt
ResponseChars == {"A", "a", "B", Comma, Space}

\* the texts the LLM may answer to the batched prompt
TableResponses == SeqsUpTo(ResponseChars, MaxResponseLen)

\* the one key of targets when the prompt is not called for each table: it
\* stands for ",".join(db.db._usable_tables)
AllTables == <<"*">>

\* no text came back from the LLM
NoText == <<"?">>

\* post_processor of LANGCHAIN_DECIDER_PROMPT:
\* lambda x: [i.strip() for i in x.split(",")]
DeciderPostProcessor(x) == StripEach(Split(x))

\* line 167: raw_response = llm_response.generations[0][0].text.strip()
RawResponse(text) == Strip(text)

\* a selector that trusts the LLM's names
TableFilterNone(selected_tables, usable) == Range(selected_tables)

\* lines 196-198: set.intersection(set(selected_tables), db.db._usable_tables)
TableFilter(selected_tables, usable) == Range(selected_tables) \cap usable

TableSelectorInit ==
    /\ sel_task = "table"
    /\ call_for_each_table \in BOOLEAN
    \* LANGCHAIN_DECIDER_PROMPT and CURATED_FEW_SHOT_COT_PROMPT have no
    \* parser; a custom prompt called for each table may have one
    /\ sel_parser \in (IF call_for_each_table THEN BOOLEAN ELSE {FALSE})
    /\ usable_tables \in SUBSET TableNames
    /\ descriptor \in UNION {[D -> {{}}] : D \in SUBSET TableNames}
    /\ allowed_joins = {}

\* lines 134-143 (table selector), 169-172 (column selector), 169-186 (join
\* selector): the targets of the loop
SelectorStart ==
    /\ sel_pc = "idle"
    /\ targets' = IF sel_task = "column"
                     \/ (sel_task = "table" /\ call_for_each_table)
                  THEN DOMAIN descriptor
                  ELSE {AllTables}
    /\ selected' = <<>>
    /\ sel_steps' = <<>>
    /\ sel_pc' = "loop"
    /\ UNCHANGED <<selcfg, sel_llm_calls, sel_error, sel_result>>
    /\ UNCHANGED sel_frame

\* the exceptions that may leave a selector's call: llm.generate raises,
\* the LLMResult has no candidate (the ValueError of the source), or the
\* prompt's parser, if it has one, rejects the text
SelectorErrors(parser) ==
    {"LLMError", "ValueError"}
    \cup (IF parser THEN {"OutputParserException"} ELSE {})

\* none of the selectors catches an exception of a call
SelectorRaise ==
    /\ sel_pc = "loop"
    /\ targets # {}
    /\ sel_llm_calls' = sel_llm_calls + 1
    /\ sel_error' \in SelectorErrors(sel_parser)
    /\ sel_pc' = "raised"
    /\ UNCHANGED <<selcfg, targets, selected, sel_steps, sel_result>>
    /\ UNCHANGED sel_frame

\* lines 145-194 with call_for_each_table: one table is put to the LLM and
\* the post processor says whether it is relevant
TableCallEach ==
    /\ sel_pc = "loop"
    /\ sel_task = "table"
    /\ call_for_each_table
    /\ \E tablename \in targets, processed_response \in BOOLEAN :
        /\ sel_llm_calls' = sel_llm_calls + 1
        /\ sel_steps' = Append(sel_steps,
                               [table |-> tablename,
                                text |-> NoText,
                                processed_response |-> processed_response])
        /\ selected' = IF processed_response
                       THEN Append(selected, tablename)
                       ELSE selected
        /\ targets' = targets \ {tablename}
    /\ UNCHANGED <<selcfg, sel_pc, sel_error, sel_result>>
    /\ UNCHANGED sel_frame

\* lines 145-194 without call_for_each_table: the one call, whose answer
\* is a comma separated list
TableCallOnce ==
    /\ sel_pc = "loop"
    /\ sel_task = "table"
    /\ ~call_for_each_table
    /\ \E tablename \in targets, text \in TableResponses :
        LET processed_response == DeciderPostProcessor(RawResponse(text))
        IN /\ sel_llm_calls' = sel_llm_calls + 1
           /\ sel_steps' = Append(sel_steps,
                                  [table |-> tablename,
                                   text |-> text,
                                   processed_response |-> processed_response])
           \* a list is true when it is not empty
           /\ selected' = IF Len(processed_response) > 0
                          THEN processed_response
                          ELSE selected
           /\ targets' = targets \ {tablename}
    /\ UNCHANGED <<selcfg, sel_pc, sel_error, sel_result>>
    /\ UNCHANGED sel_frame

\* lines 196-207
TableReturn ==
    /\ sel_pc = "loop"
    /\ sel_task = "table"
    /\ targets = {}
    /\ sel_result' = [available |-> usable_tables,
                      selected |-> TableFilter(selected, usable_tables)]
    /\ sel_pc' = "done"
    /\ UNCHANGED <<selcfg, targets, selected, sel_steps, sel_llm_calls,
                   sel_error>>
    /\ UNCHANGED sel_frame

(***************************************************************************)
(* CoreColumnSelector.__call__                                             *)
(***************************************************************************)
\* the tables and columns of the database views the column selector sees
ColumnTables == {<<"A">>, <<"a">>}

ColumnNames == {<<"x">>, <<"X">>}

\* f"{tabname}.{colname}"
QualifiedName(tabname, colname) == tabname \o <<".">> \o colname

\* the names the LLM may put in the columns field of its answer
ColumnItems ==
    {QualifiedName(<<"A">>, <<"x">>), QualifiedName(<<"a">>, <<"x">>),
     QualifiedName(<<"A">>, <<"X">>), QualifiedName(<<"B">>, <<"x">>),
     <<"x">>}

\* a field of the LLM's answer that lists names: the names, a comma and a
\* space between them
RECURSIVE ListField(_)
ListField(items) ==
    IF Len(items) = 0 THEN <<>>
    ELSE IF Len(items) = 1 THEN items[1]
    ELSE items[1] \o <<Comma, Space>> \o ListField(Tail(items))

\* post_processor of CURATED_ZERO_SHOT_PROMPT on the columns field:
\* [i.strip() for i in x["columns"].split(",")] if x and x.get("columns")
\* else []
ColumnPostProcessor(columns) ==
    IF Len(columns) > 0 THEN StripEach(Split(columns)) ELSE <<>>

\* lines 219-223: avialble_columns
AvailableColumns(desc) ==
    UNION {{QualifiedName(t, c) : c \in desc[t]} : t \in DOMAIN desc}

\* lines 224 and 221 (join selector): {i.lower(): i for i in names}.  Of
\* two names with one lower-case form the dict keeps the one the set
\* yields last, and a set yields its elements in no fixed order.
LowerMaps(names) ==
    {m \in [{Lower(i) : i \in names} -> names] :
        \A k \in DOMAIN m : Lower(m[k]) = k}

\* lines 225-229: filtered_selected_columns
ColumnFilter(selected_columns, lower_map) ==
    {lower_map[Lower(c)] :
        c \in {d \in Range(selected_columns) : Lower(d) \in DOMAIN lower_map}}

ColumnSelectorInit ==
    /\ sel_task = "column"
    /\ call_for_each_table = FALSE
    /\ sel_parser \in BOOLEAN
    /\ descriptor \in
          UNION {[D -> SUBSET ColumnNames] : D \in SUBSET ColumnTables}
    /\ usable_tables = DOMAIN descriptor
    /\ allowed_joins = {}

\* lines 172-217: one table's columns are put to the LLM
ColumnCall ==
    /\ sel_pc = "loop"
    /\ sel_task = "column"
    /\ \E tablename \in targets, items \in SeqsUpTo(ColumnItems, MaxNamed) :
        LET processed_response == ColumnPostProcessor(ListField(items))
        IN /\ sel_llm_calls' = sel_llm_calls + 1
           /\ sel_steps' = Append(sel_steps,
                                  [table |-> tablename,
                                   text |-> ListField(items),
                                   processed_response |-> processed_response])
           /\ selected' = selected \o processed_response
           /\ targets' = targets \ {tablename}
    /\ UNCHANGED <<selcfg, sel_pc, sel_error, sel_result>>
    /\ UNCHANGED sel_frame

\* lines 219-238
ColumnReturn ==
    /\ sel_pc = "loop"
    /\ sel_task = "column"
    /\ targets = {}
    /\ \E lower_map \in LowerMaps(AvailableColumns(descriptor)) :
        sel_result' = [available |-> AvailableColumns(descriptor),
                       selected |-> ColumnFilter(selected, lower_map)]
    /\ sel_pc' = "done"
    /\ UNCHANGED <<selcfg, targets, selected, sel_steps, sel_llm_calls,
                   sel_error>>
    /\ UNCHANGED sel_frame

(***************************************************************************)
(* CoreJoinSelector.__call__                                               *)
(***************************************************************************)
\* the joins the foreign keys of a database may allow, written
\* tablename.column=tablename.column in the source
JoinNames == {<<"A", "=", "B">>, <<"a", "=", "b">>, <<"B", "=", "A">>}

\* the joins the LLM may put in the joins field of its answer
JoinItems ==
    {<<"A", "=", "B">>, <<"a", "=", "b">>, <<"A", "=", "b">>,
     <<"A", Space, "=", "B">>, <<"B", "=", "B">>}

\* post_processor of CURATED_ZERO_SHOT_PROMPT on the joins field:
\* [i.strip().replace(" ", "") for i in x["joins"].split(",")]
\* if x and x.get("joins") else []
StripAndRemoveSpaces(i) == RemoveSpaces(Strip(i))

JoinPostProcessor(joins) ==
    IF Len(joins) > 0
    THEN LET l == Split(joins)
         IN [i \in 1..Len(l) |-> StripAndRemoveSpaces(l[i])]
    ELSE <<>>

\* dict.get(key, default)
DictGet(d, key, default) == IF key \in DOMAIN d THEN d[key] ELSE default

\* line 223: {allowed_joins_lower_map.get(i, i) for i in processed_response}
JoinFilter(processed_response, lower_map) ==
    {DictGet(lower_map, i, i) : i \in Range(processed_response)}

JoinSelectorInit ==
    /\ sel_task = "join"
    /\ call_for_each_table = FALSE
    /\ sel_parser \in BOOLEAN
    /\ descriptor \in [TableNames -> {{}}]
    /\ usable_tables = DOMAIN descriptor
    /\ allowed_joins \in SUBSET JoinNames

\* lines 171-213: the one call of the join selector
JoinCall ==
    /\ sel_pc = "loop"
    /\ sel_task = "join"
    /\ \E tablename \in targets, items \in SeqsUpTo(JoinItems, MaxNamed) :
        LET processed_response == JoinPostProcessor(ListField(items))
        IN /\ sel_llm_calls' = sel_llm_calls + 1
           /\ sel_steps' = Append(sel_steps,
                                  [table |-> tablename,
                                   text |-> ListField(items),
                                   processed_response |-> processed_response])
           /\ selected' = processed_response
           /\ targets' = targets \ {tablename}
    /\ UNCHANGED <<selcfg, sel_pc, sel_error, sel_result>>
    /\ UNCHANGED sel_frame

\* lines 214-233
JoinReturn ==
    /\ sel_pc = "loop"
    /\ sel_task = "join"
    /\ targets = {}
    /\ \E lower_map \in LowerMaps(allowed_joins) :
        sel_result' = [available |-> allowed_joins,
                       selected |-> JoinFilter(selected, lower_map)]
    /\ sel_pc' = "done"
    /\ UNCHANGED <<selcfg, targets, selected, sel_steps, sel_llm_calls,
                   sel_error>>
    /\ UNCHANGED sel_frame

(***************************************************************************)
(* CoreSqlGenerator.__call__                                               *)
(***************************************************************************)
\* the prompts of _SqlGeneratorPrompts: LANGCHAIN_ZERO_SHOT_PROMPT has no
\* parser, CURATED_ZERO_SHOT_PROMPT has the structured default_parser
GeneratorPrompts == {"LANGCHAIN_ZERO_SHOT_PROMPT", "CURATED_ZERO_SHOT_PROMPT"}

\* the words of a text answered to LANGCHAIN_ZERO_SHOT_PROMPT: the two
\* markers its post processor looks for, white space and a query
SqlQueryMark == "SQLQuery:"

SqlResultMark == "SQLResult:"

SqlWords == {SqlQueryMark, SqlResultMark, Space, "q1"}

\* the texts the LLM may answer to a generation prompt: word sequences to
\* the prompt without parser; to the prompt with parser, texts that are
\* well formed or not, whose query field may be null
GeneratorTexts(prompt) ==
    IF prompt = "LANGCHAIN_ZERO_SHOT_PROMPT"
    THEN SeqsUpTo(SqlWords, MaxTextLen)
    ELSE [wellformed : BOOLEAN, query : Queries \cup {None}]

\* the candidates and generations that come after the first
OtherTexts(prompt) ==
    IF prompt = "LANGCHAIN_ZERO_SHOT_PROMPT"
    THEN {<<"q2">>}
    ELSE {[wellformed |-> TRUE, query |-> "q2"]}

\* the generations of an LLMResult: none, one without candidate, or a
\* first candidate followed by further candidates and generations
GeneratorGenerations(prompt) ==
    {<<>>, << <<>> >>}
    \cup { << <<t>> \o rest >> \o more :
             t \in GeneratorTexts(prompt),
             rest \in SeqsUpTo(OtherTexts(prompt), 1),
             more \in SeqsUpTo({<<o>> : o \in OtherTexts(prompt)}, 1) }

\* line 210: .text.strip()
GeneratorRawResponse(prompt, text) ==
    IF prompt = "LANGCHAIN_ZERO_SHOT_PROMPT" THEN Strip(text) ELSE text

\* lines 216-220: parser.parse raises on a text that is not well formed
GeneratorCanParse(prompt, raw_response) ==
    IF prompt = "LANGCHAIN_ZERO_SHOT_PROMPT" THEN TRUE
    ELSE CanParse(raw_response)

\* post_processor of LANGCHAIN_ZERO_SHOT_PROMPT:
\* lambda x: x.split("SQLResult:")[0].split("SQLQuery:")[-1].strip()
LangchainPostProcessor(x) ==
    Strip(Last(SplitOn(SplitOn(x, SqlResultMark)[1], SqlQueryMark)))

\* line 221: processed_response = self.prompt.post_processor(
\* parsed_response)
GeneratorPostProcess(prompt, parsed_response) ==
    IF prompt = "LANGCHAIN_ZERO_SHOT_PROMPT"
    THEN LangchainPostProcessor(parsed_response)
    ELSE PostProcessQuery(parsed_response)

\* no CoreSqlGenratorResult has been built yet
NoGeneration == [generated_query |-> None, intermediate_steps |-> <<>>]

GeneratorInit ==
    /\ gen_prompt \in GeneratorPrompts
    /\ gen_dialect \in Dialects
    /\ gen_template_map \in SUBSET TemplateKeys
    /\ gen_pc = "idle"
    /\ gen_template = None
    /\ gen_generations = <<>>
    /\ gen_llm_calls = 0
    /\ gen_error = None
    /\ gen_result = NoGeneration

\* lines 177-204: the prompt template for the dialect, ValueError if none
GeneratorPrepare ==
    /\ gen_pc = "idle"
    /\ gen_template' = LookupTemplate(gen_template_map, gen_dialect)
    /\ IF LookupTemplate(gen_template_map, gen_dialect) = None
       THEN /\ gen_error' = "ValueError"
            /\ gen_pc' = "raised"
       ELSE /\ gen_pc' = "prompted"
            /\ UNCHANGED gen_error
    /\ UNCHANGED <<gencfg, gen_generations, gen_llm_calls, gen_result>>
    /\ UNCHANGED gen_frame

\* line 205: llm.generate raises
GeneratorLLMFails ==
    /\ gen_pc = "prompted"
    /\ gen_llm_calls' = gen_llm_calls + 1
    /\ gen_error' = "LLMError"
    /\ gen_pc' = "raised"
    /\ UNCHANGED <<gencfg, gen_template, gen_generations, gen_result>>
    /\ UNCHANGED gen_frame

\* lines 205-214: the one llm.generate call and its first candidate
GeneratorCall ==
    /\ gen_pc = "prompted"
    /\ gen_llm_calls' = gen_llm_calls + 1
    /\ \E generations \in GeneratorGenerations(gen_prompt) :
        /\ gen_generations' = generations
        /\ IF HasFirstCandidate(generations)
           THEN /\ gen_pc' = "answered"
                /\ UNCHANGED gen_error
           ELSE /\ gen_error' = "ValueError"
                /\ gen_pc' = "raised"
    /\ UNCHANGED <<gencfg, gen_template, gen_result>>
    /\ UNCHANGED gen_frame

\* lines 216-238: parse, post process, the one step and the result
GeneratorReturn ==
    /\ gen_pc = "answered"
    /\ LET raw_response ==
               GeneratorRawResponse(gen_prompt,
                                    FirstCandidate(gen_generations))
       IN IF GeneratorCanParse(gen_prompt, raw_response)
          THEN LET processed_response ==
                       GeneratorPostProcess(gen_prompt, raw_response)
               IN /\ gen_result' =
                        [generated_query |-> processed_response,
                         intermediate_steps |->
                            << [raw_response |-> raw_response,
                                processed_response |-> processed_response] >>]
                  /\ gen_pc' = "done"
                  /\ UNCHANGED gen_error
          ELSE /\ gen_error' = "OutputParserException"
               /\ gen_pc' = "raised"
               /\ UNCHANGED gen_result
    /\ UNCHANGED <<gencfg, gen_template, gen_generations, gen_llm_calls>>
    /\ UNCHANGED gen_frame

(***************************************************************************)
(* EntitySet and Database.filter                                           *)
(***************************************************************************)
Dot == "."

Star == "*"

NewLine == "\n"

\* the characters of the class [a-zA-Z0-9_-] that names are written with
NameChars == {"d", "t", "u", "c", "k", "x"}

\* f"{db}.{tab}.{col}"
EntityId(db, tab, col) == db \o <<Dot>> \o tab \o <<Dot>> \o col

\* the schemas an EntitySet is built against: database name -> table name
\* -> column names (the keys of the innermost dict)
DatasetSchemas ==
    { (<<"d">> :> (<<"t">> :> {<<"c">>, <<"k">>} @@ <<"u">> :> {<<"c">>})),
      (<<"d">> :> (<<"t">> :> {<<"c">>})),
      (<<"d">> :> (<<"t">> :> {<<"c">>, <<"k">>}))
          @@ (<<"x">> :> (<<"u">> :> {<<"c">>})) }

\* dict.get(key, {}) on a dict of dicts
GetOrEmpty(dict, key) == IF key \in DOMAIN dict THEN dict[key] ELSE <<>>

\* the columns of a table: dataset_schema.get(db, {}).get(tab, {}).keys()
ColumnsOf(schema, db, tab) ==
    LET tables == GetOrEmpty(schema, db)
    IN IF tab \in DOMAIN tables THEN tables[tab] ELSE {}

\* the keys of a dict as a list, in the dict's order
RECURSIVE KeyList(_)
KeyList(keys) ==
    IF keys = {} THEN <<>>
    ELSE LET k == CHOOSE x \in keys : TRUE
         IN <<k>> \o KeyList(keys \ {k})

\* the orders in which list(a set) may hold the elements of the set
Orders(S) == {l \in [1..Cardinality(S) -> S] : Range(l) = S}

\* re.match("^[a-zA-Z0-9_-]+$", id_part): one or more characters of the
\* class, up to the end of the string or up to a newline that ends it
ReMatchName(id_part) ==
    LET body == IF Len(id_part) > 0 /\ Last(id_part) = NewLine
                THEN SubSeq(id_part, 1, Len(id_part) - 1)
                ELSE id_part
    IN /\ Len(body) > 0
       /\ \A i \in 1..Len(body) : body[i] \in NameChars

\* lines 124-132: the three asserts on one identifier
IdStructureOk(curr_id) ==
    /\ curr_id # <<Star, Dot, Star, Dot, Star>>
    /\ LET id_parts == SplitOn(curr_id, Dot)
       IN /\ Len(id_parts) = 3
          /\ \A i \in 1..3 :
                id_parts[i] = <<Star>> \/ ReMatchName(id_parts[i])

\* lines 118-133: EntitySet.id_structure accepts the list ids
IdStructure(id_list) == \A i \in 1..Len(id_list) : IdStructureOk(id_list[i])

\* lines 195-228: the worklist of model_post_init, from a stack and the
\* identifiers resolved so far to the final resolved_ids
RECURSIVE Resolve(_, _, _)
Resolve(stack, resolved_ids, schema) ==
    IF stack = <<>> THEN resolved_ids
    ELSE LET curr_id  == Last(stack)
             rest     == SubSeq(stack, 1, Len(stack) - 1)
             parts    == SplitOn(curr_id, Dot)
             database_name == parts[1]
             table    == parts[2]
             column   == parts[3]
             dbs      == KeyList(DOMAIN schema)
             tabs     == KeyList(DOMAIN GetOrEmpty(schema, database_name))
             cols     == KeyList(ColumnsOf(schema, database_name, table))
         IN IF database_name = <<Star>>
            THEN Resolve(rest \o [i \in 1..Len(dbs) |->
                                    EntityId(dbs[i], table, column)],
                         resolved_ids, schema)
            ELSE IF table = <<Star>>
            THEN Resolve(rest \o [i \in 1..Len(tabs) |->
                                    EntityId(database_name, tabs[i], column)],
                         resolved_ids, schema)
            ELSE IF column = <<Star>>
            THEN Resolve(rest \o [i \in 1..Len(cols) |->
                                    EntityId(database_name, table, cols[i])],
                         resolved_ids, schema)
            ELSE IF column \in ColumnsOf(schema, database_name, table)
            THEN Resolve(rest, Append(resolved_ids, curr_id), schema)
            ELSE Resolve(rest, resolved_ids, schema)

\* a model_post_init that keeps the identifiers as they were written
PostInitKeepsAll(id_list, schema) == {id_list}

\* lines 194-228: the lists model_post_init may leave in self.ids, one for
\* each order in which list(set(self.ids)) holds the identifiers
PostInitIds(id_list, schema) ==
    {Resolve(stack, <<>>, schema) : stack \in Orders(Range(id_list))}

\* lines 166-171: every identifier of the schema
Universe(schema) ==
    UNION {UNION {{EntityId(db, tab, col) : col \in schema[db][tab]} :
                    tab \in DOMAIN schema[db]} : db \in DOMAIN schema}

\* an inversion that gives the identifiers back as they are
InvertNothing(id_list, schema) == Range(id_list)

\* lines 164-173: the identifiers EntitySet.invert builds its result from
InvertIds(id_list, schema) == Universe(schema) \ Range(id_list)

\* the selectors a caller writes: wildcards and names of the schemas, a
\* table and a database that some schemas do not have
WrittenSelectors ==
    {EntityId(db, tab, col) :
        db \in {<<"d">>, <<Star>>}, tab \in {<<"t">>, <<Star>>},
        col \in {<<"c">>, <<"k">>, <<Star>>}}
    \cup {EntityId(<<"d">>, <<"u">>, <<"c">>),
          EntityId(<<"x">>, <<"t">>, <<"c">>)}

\* the characters of an arbitrary selector string
SelectorChars == {"d", Star, Dot, NewLine, "!"}

\* a single selector of arbitrary characters
RawSelectors == SeqsUpTo(SelectorChars, MaxSelectorLen)

\* no Database has been returned yet
NoEntities == <<None>>

\* EntitySet.filter has not been called
NoFilteredSet == [key |-> None, value |-> <<>>, ids |-> <<>>]

EntityInit ==
    /\ \/ /\ filters \in SeqsUpTo(WrittenSelectors, MaxSelectors)
          /\ dataset_schema \in DatasetSchemas
          /\ filter_type \in {"only", "exclude"}
       \/ /\ filters \in {<<s>> : s \in RawSelectors}
          /\ dataset_schema = (<<"d">> :> (<<"d">> :> {<<"d">>}))
          /\ filter_type = "exclude"
    /\ ids = filters
    /\ ent_pc = "new"
    /\ ent_error = None
    /\ exclude_entities = NoEntities
    /\ filtered_set = NoFilteredSet

\* lines 118-133 and 349: EntitySet(ids=filters, ...) validates the ids
EntityValidate ==
    /\ ent_pc = "new"
    /\ IF IdStructure(ids)
       THEN /\ ent_pc' = "validated"
            /\ UNCHANGED ent_error
       ELSE /\ ent_pc' = "rejected"
            /\ ent_error' = "ValidationError"
    /\ UNCHANGED <<entcfg, ids, exclude_entities, filtered_set>>
    /\ UNCHANGED ent_frame

\* lines 194-228: model_post_init replaces the ids by the resolved ones
EntityPostInit ==
    /\ ent_pc = "validated"
    /\ ids' \in PostInitIds(ids, dataset_schema)
    /\ ent_pc' = "expanded"
    /\ UNCHANGED <<entcfg, ent_error, exclude_entities, filtered_set>>
    /\ UNCHANGED ent_frame

\* lines 350-362 and 160-175: invert in "only" mode (a new EntitySet of
\* the complement, validated and resolved in turn), and the new Database
DatabaseFilter ==
    /\ ent_pc = "expanded"
    /\ IF filter_type = "only"
       THEN \E inverted \in Orders(InvertIds(ids, dataset_schema)) :
               IF IdStructure(inverted)
               THEN /\ exclude_entities' \in
                          PostInitIds(inverted, dataset_schema)
                    /\ ent_pc' = "filtered"
                    /\ UNCHANGED ent_error
               ELSE /\ ent_pc' = "rejected"
                    /\ ent_error' = "ValidationError"
                    /\ UNCHANGED exclude_entities
       ELSE /\ exclude_entities' = ids
            /\ ent_pc' = "filtered"
            /\ UNCHANGED ent_error
    /\ UNCHANGED <<entcfg, ids, filtered_set>>
    /\ UNCHANGED ent_frame

\* the key argument of EntitySet.filter and the part of an identifier it
\* names
FilterKeys == {"database", "table", "column"}

\* lines 149-153: the part of curr_id.split(".") that the key names
KeyPart(curr_id, key) ==
    LET parts == SplitOn(curr_id, Dot)
    IN CASE key = "database" -> parts[1]
         [] key = "table" -> parts[2]
         [] key = "column" -> parts[3]

\* the value argument of EntitySet.filter: names of databases, tables and
\* columns
FilterValues == {<<"d">>, <<"x">>, <<"t">>, <<"c">>}

\* lines 141-158: EntitySet.filter keeps the identifiers whose part named
\* by key is value and builds a new EntitySet of them against the same
\* schema, which is validated and resolved in turn
EntitySetFilter ==
    /\ ent_pc = "expanded"
    /\ \E key \in FilterKeys, value \in FilterValues :
          LET new_ids == SelectSeq(ids, LAMBDA curr_id :
                                           KeyPart(curr_id, key) = value)
          IN IF IdStructure(new_ids)
             THEN /\ \E resolved \in PostInitIds(new_ids, dataset_schema) :
                        filtered_set' = [key |-> key, value |-> value,
                                         ids |-> resolved]
                  /\ ent_pc' = "subset"
                  /\ UNCHANGED ent_error
             ELSE /\ ent_pc' = "rejected"
                  /\ ent_error' = "ValidationError"
                  /\ UNCHANGED filtered_set
    /\ UNCHANGED <<entcfg, ids, exclude_entities>>
    /\ UNCHANGED ent_frame

(***************************************************************************)
(* Database.model_post_init: the view of a database under exclusions.      *)
(* A view holds the exclusion set it was built with, the descriptor        *)
(* (table -> columns described) and the usable tables of its db.           *)
(***************************************************************************)
\* lines 377-383: the tables all of whose columns are excluded
TableExclusions(name, dbschema, all_exclusions) ==
    {tablename \in DOMAIN dbschema :
        {EntityId(name, tablename, column) : column \in dbschema[tablename]}
            \subseteq all_exclusions}

\* a descriptor that drops every excluded column, constrained or not
ViewDescriptorUnconstrained(name, dbschema, all_exclusions, constrained) ==
    [tablename \in DOMAIN dbschema
                   \ TableExclusions(name, dbschema, all_exclusions) |->
        {col \in dbschema[tablename] :
            EntityId(name, tablename, col) \notin all_exclusions}]

\* lines 400-504: the descriptor keeps, of every table that is not
\* excluded, the columns that are in a constraint or are not excluded
ViewDescriptor(name, dbschema, all_exclusions, constrained) ==
    [tablename \in DOMAIN dbschema
                   \ TableExclusions(name, dbschema, all_exclusions) |->
        {col \in dbschema[tablename] :
            \/ col \in constrained[tablename]
            \/ EntityId(name, tablename, col) \notin all_exclusions}]

\* lines 370-508: the Database built with the given exclusions; its db
\* ignores the excluded tables
DatabaseView(name, dbschema, all_exclusions, constrained) ==
    [exclude_entities |-> all_exclusions,
     descriptor |-> ViewDescriptor(name, dbschema, all_exclusions,
                                   constrained),
     usable_tables |-> DOMAIN dbschema
                       \ TableExclusions(name, dbschema, all_exclusions)]

\* a filter that excludes nothing
NoExclusions(name, dbschema, filter_list) == {{}}

\* lines 343-362 with filter_type "only": the exclusion sets of the new
\* Database, one for each order the entity sets may hold their ids in
OnlyExclusions(name, dbschema, filter_list) ==
    LET schema == (name :> dbschema)
    IN {Range(excluded) :
          excluded \in UNION {PostInitIds(inverted, schema) :
              inverted \in UNION {Orders(InvertIds(resolved, schema)) :
                  resolved \in PostInitIds(filter_list, schema)}}}

(***************************************************************************)
(* CoreLinearExecutor.__call__                                             *)
(***************************************************************************)
\* the database the executor runs on: its name, schema and the columns of
\* each table that are in a constraint
ExecutorDbName == <<"d">>

ExecutorSchema == <<"t">> :> {<<"c">>, <<"k">>} @@ <<"u">> :> {<<"c">>}

ExecutorConstraints ==
    { (<<"t">> :> {} @@ <<"u">> :> {}),
      (<<"t">> :> {<<"c">>} @@ <<"u">> :> {}) }

\* the pieces of the texts the SQL generation task may return: a code
\* fence, the word sql, a blank, a query body and a single backtick
\* the backtick character (written out: the character itself cannot stand
\* in a string here)
Backtick == "BACKTICK"

Fence == <<Backtick, Backtick, Backtick>>

SqlWord == <<"s", "q", "l">>

QueryBody == <<"Q">>

TextPieces == {Fence, SqlWord, <<Space>>, QueryBody, <<Backtick>>}

\* "".join(pieces)
RECURSIVE Join(_)
Join(pieces) ==
    IF Len(pieces) = 0 THEN <<>> ELSE Head(pieces) \o Join(Tail(pieces))

\* a text inside a fence that names the language: the fence, the word
\* sql, the text, the fence
Fenced(text) == Fence \o SqlWord \o text \o Fence

\* the queries the SQL generation task may return: texts of at most
\* MaxPieces pieces, bare or fenced
GeneratedQueries ==
    LET texts == {Join(pieces) : pieces \in SeqsUpTo(TextPieces, MaxPieces)}
    IN texts \cup {Fenced(text) : text \in texts}

\* the queries the repair task may return for a query: the query itself or
\* a candidate of the LLM
RepairedQueries(q) == {q, QueryBody, Fenced(QueryBody)}

\* a query that is None, written so that it compares with a text
NoQuery == <<None>>

\* a Python string or None is true when it is a non-empty string
Truthy(q) == q # NoQuery /\ q # <<>>

\* lines 134-135: re.sub of fence-or-sql by "" removes, from left to right,
\* every occurrence of the fence and of the word sql
RECURSIVE ReSub(_)
ReSub(q) ==
    IF Len(q) = 0 THEN <<>>
    ELSE IF Len(q) >= 3 /\ SubSeq(q, 1, 3) \in {Fence, SqlWord}
    THEN ReSub(SubSeq(q, 4, Len(q)))
    ELSE <<Head(q)>> \o ReSub(Tail(q))

\* steps that put the new entry first
PrependStep(steps, key) == <<key>> \o steps

\* result_intermediate_steps.append({key: ...})
AppendStep(steps, key) == Append(steps, key)

\* a default selection for a selector that is not configured
SkippedSelectionEmpty == {}

\* lines 91-92 and 106-107: the fields of a selector that is None are
\* None, written so that it compares with a set of names
SkippedSelection == {<<None>>}

\* a repair whose failure loses the query
AfterEvalFixLost(raised, generated_query, modified_query) ==
    IF raised THEN NoQuery ELSE modified_query

\* lines 118-130: the query after the repair task was called
AfterEvalFix(raised, generated_query, modified_query) ==
    IF raised THEN generated_query ELSE modified_query

ExecutorInit ==
    /\ core_table_selector \in BOOLEAN
    /\ core_column_selector \in BOOLEAN
    /\ core_eval_fix \in BOOLEAN
    /\ constraints \in ExecutorConstraints
    \* line 77: database = self.dataset.get_database(db_name)
    /\ database = DatabaseView(ExecutorDbName, ExecutorSchema, {},
                               constraints)
    /\ result_available_tables = SkippedSelection
    /\ result_selected_tables = SkippedSelection
    /\ result_available_columns = SkippedSelection
    /\ result_selected_columns = SkippedSelection
    /\ result_sg = NoQuery
    /\ result_generated_query = NoQuery
    /\ result_intermediate_steps = <<>>
    /\ stages = <<>>
    /\ eval_fix_raised = FALSE
    /\ lin_error = None
    /\ lin_pc = "table_selection"

\* lines 79-89: table selection, then the view of the selected tables only
ExecTableSelection ==
    /\ lin_pc = "table_selection"
    /\ core_table_selector
    /\ stages' = Append(stages, "table_selection")
    \* CoreTableSelector returns the usable tables and some of them
    /\ \E selected_tables \in SUBSET database.usable_tables :
        /\ result_available_tables' = database.usable_tables
        /\ result_selected_tables' = selected_tables
        /\ \E filter_list \in
                Orders({EntityId(ExecutorDbName, i, <<Star>>) :
                           i \in selected_tables}) :
             IF IdStructure(filter_list)
             THEN /\ \E all_exclusions \in
                         OnlyExclusions(ExecutorDbName, ExecutorSchema,
                                        filter_list) :
                       database' = DatabaseView(ExecutorDbName,
                                                ExecutorSchema,
                                                all_exclusions, constraints)
                  /\ result_intermediate_steps' =
                        AppendStep(result_intermediate_steps,
                                   "table_selection")
                  /\ lin_pc' = "column_selection"
                  /\ UNCHANGED lin_error
             ELSE /\ lin_error' = "ValidationError"
                  /\ lin_pc' = "raised"
                  /\ UNCHANGED <<database, result_intermediate_steps>>
    /\ UNCHANGED <<lincfg, result_available_columns,
                   result_selected_columns, result_sg,
                   result_generated_query, eval_fix_raised>>
    /\ UNCHANGED lin_frame

\* lines 90-92: no table selector
ExecSkipTableSelection ==
    /\ lin_pc = "table_selection"
    /\ ~core_table_selector
    /\ result_available_tables' = SkippedSelection
    /\ result_selected_tables' = SkippedSelection
    /\ lin_pc' = "column_selection"
    /\ UNCHANGED <<lincfg, database, result_available_columns,
                   result_selected_columns, result_sg,
                   result_generated_query, result_intermediate_steps,
                   stages, eval_fix_raised, lin_error>>
    /\ UNCHANGED lin_frame

\* lines 94-104: column selection, then the view of the selected columns
\* only
ExecColumnSelection ==
    /\ lin_pc = "column_selection"
    /\ core_column_selector
    /\ stages' = Append(stages, "column_selection")
    \* CoreColumnSelector returns the columns of the view's descriptor and
    \* some of them
    /\ \E selected_columns \in
            SUBSET AvailableColumns(database.descriptor) :
        /\ result_available_columns' = AvailableColumns(database.descriptor)
        /\ result_selected_columns' = selected_columns
        /\ \E filter_list \in
                Orders({ExecutorDbName \o <<Dot>> \o i :
                           i \in selected_columns}) :
             IF IdStructure(filter_list)
             THEN /\ \E all_exclusions \in
                         OnlyExclusions(ExecutorDbName, ExecutorSchema,
                                        filter_list) :
                       database' = DatabaseView(ExecutorDbName,
                                                ExecutorSchema,
                                                all_exclusions, constraints)
                  /\ result_intermediate_steps' =
                        AppendStep(result_intermediate_steps,
                                   "column_selection")
                  /\ lin_pc' = "sql_generation"
                  /\ UNCHANGED lin_error
             ELSE /\ lin_error' = "ValidationError"
                  /\ lin_pc' = "raised"
                  /\ UNCHANGED <<database, result_intermediate_steps>>
    /\ UNCHANGED <<lincfg, result_available_tables, result_selected_tables,
                   result_sg, result_generated_query, eval_fix_raised>>
    /\ UNCHANGED lin_frame

\* lines 105-107: no column selector
ExecSkipColumnSelection ==
    /\ lin_pc = "column_selection"
    /\ ~core_column_selector
    /\ result_available_columns' = SkippedSelection
    /\ result_selected_columns' = SkippedSelection
    /\ lin_pc' = "sql_generation"
    /\ UNCHANGED <<lincfg, database, result_available_tables,
                   result_selected_tables, result_sg,
                   result_generated_query, result_intermediate_steps,
                   stages, eval_fix_raised, lin_error>>
    /\ UNCHANGED lin_frame

\* lines 80, 95 and 109: the task called raises, and so does the executor
ExecTaskRaises ==
    /\ \/ lin_pc = "table_selection" /\ core_table_selector
       \/ lin_pc = "column_selection" /\ core_column_selector
       \/ lin_pc = "sql_generation"
    /\ stages' = Append(stages, lin_pc)
    /\ lin_error' = "TaskError"
    /\ lin_pc' = "raised"
    /\ UNCHANGED <<lincfg, database, result_available_tables,
                   result_selected_tables, result_available_columns,
                   result_selected_columns, result_sg,
                   result_generated_query, result_intermediate_steps,
                   eval_fix_raised>>
    /\ UNCHANGED lin_frame

\* lines 109-114: SQL generation on the view
ExecSqlGeneration ==
    /\ lin_pc = "sql_generation"
    /\ stages' = Append(stages, "sql_generation")
    /\ \E generated_query \in GeneratedQueries \cup {NoQuery} :
        /\ result_sg' = generated_query
        /\ result_generated_query' = generated_query
    /\ result_intermediate_steps' =
          AppendStep(result_intermediate_steps, "sql_generation")
    /\ lin_pc' = "eval_fix"
    /\ UNCHANGED <<lincfg, database, result_available_tables,
                   result_selected_tables, result_available_columns,
                   result_selected_columns, eval_fix_raised, lin_error>>
    /\ UNCHANGED lin_frame

\* lines 116-130: the repair task is called on a query that is not empty;
\* whatever it raises is logged and the query is kept
ExecEvalFix ==
    /\ lin_pc = "eval_fix"
    /\ core_eval_fix
    /\ Truthy(result_generated_query)
    /\ stages' = Append(stages, "eval_fix")
    /\ \E raised \in BOOLEAN,
          modified_query \in RepairedQueries(result_generated_query) :
        /\ eval_fix_raised' = raised
        /\ result_generated_query' =
              AfterEvalFix(raised, result_generated_query, modified_query)
        /\ result_intermediate_steps' =
              IF raised THEN result_intermediate_steps
              ELSE AppendStep(result_intermediate_steps, "eval_fix")
    /\ lin_pc' = "post_processing"
    /\ UNCHANGED <<lincfg, database, result_available_tables,
                   result_selected_tables, result_available_columns,
                   result_selected_columns, result_sg, lin_error>>
    /\ UNCHANGED lin_frame

\* lines 116-117: no repair task, or no query to repair
ExecSkipEvalFix ==
    /\ lin_pc = "eval_fix"
    /\ ~(core_eval_fix /\ Truthy(result_generated_query))
    /\ lin_pc' = "post_processing"
    /\ UNCHANGED <<lincfg, database, result_available_tables,
                   result_selected_tables, result_available_columns,
                   result_selected_columns, result_sg,
                   result_generated_query, result_intermediate_steps,
                   stages, eval_fix_raised, lin_error>>
    /\ UNCHANGED lin_frame

\* lines 132-147: the clean up of the query and the result
ExecPostProcess ==
    /\ lin_pc = "post_processing"
    /\ stages' = Append(stages, "post_processing")
    /\ result_generated_query' =
          IF result_generated_query # NoQuery
          THEN ReSub(result_generated_query)
          ELSE result_generated_query
    /\ lin_pc' = "done"
    /\ UNCHANGED <<lincfg, database, result_available_tables,
                   result_selected_tables, result_available_columns,
                   result_selected_columns, result_sg,
                   result_intermediate_steps, eval_fix_raised, lin_error>>
    /\ UNCHANGED lin_frame

(***************************************************************************)
(* The specifications: one call of CoreEvalFix (Spec, LiveSpec), one call  *)
(* of a selector (SelSpec), one call of CoreSqlGenerator (GenSpec), one    *)
(* call of Database.filter (EntSpec), one call of CoreLinearExecutor       *)
(* (LinSpec).                                                              *)
(***************************************************************************)
\* no selection result has been built yet
NoSelection == [available |-> {}, selected |-> {}]

\* no selector is called
SelectorOff ==
    /\ sel_task = "none"
    /\ call_for_each_table = FALSE
    /\ sel_parser = FALSE
    /\ usable_tables = {}
    /\ descriptor = <<>>
    /\ allowed_joins = {}
    /\ sel_pc = "off"
    /\ targets = {}
    /\ selected = <<>>
    /\ sel_steps = <<>>
    /\ sel_llm_calls = 0
    /\ sel_error = None
    /\ sel_result = NoSelection

\* CoreEvalFix is not called
EvalFixOff ==
    /\ num_retries = 0
    /\ dialect = "sqlite"
    /\ template_map = {}
    /\ query = None
    /\ pc = "off"
    /\ trials = <<>>
    /\ intermediate_steps = <<>>
    /\ attempt_number = 0
    /\ trial_id = 0
    /\ output = None
    /\ result = NoResult
    /\ db_calls = 0
    /\ llm_calls = 0
    /\ executed = <<>>
    /\ last_outcome = "none"
    /\ no_template = FALSE

\* CoreSqlGenerator is not called
GeneratorOff ==
    /\ gen_prompt = "LANGCHAIN_ZERO_SHOT_PROMPT"
    /\ gen_dialect = "sqlite"
    /\ gen_template_map = {}
    /\ gen_pc = "off"
    /\ gen_template = None
    /\ gen_generations = <<>>
    /\ gen_llm_calls = 0
    /\ gen_error = None
    /\ gen_result = NoGeneration

\* Database.filter is not called
EntityOff ==
    /\ dataset_schema = <<>>
    /\ filters = <<>>
    /\ filter_type = "only"
    /\ ids = <<>>
    /\ ent_pc = "off"
    /\ ent_error = None
    /\ exclude_entities = NoEntities
    /\ filtered_set = NoFilteredSet

\* CoreLinearExecutor is not called
ExecutorOff ==
    /\ core_table_selector = FALSE
    /\ core_column_selector = FALSE
    /\ core_eval_fix = FALSE
    /\ constraints = <<>>
    /\ database = None
    /\ result_available_tables = None
    /\ result_selected_tables = None
    /\ result_available_columns = None
    /\ result_selected_columns = None
    /\ result_sg = None
    /\ result_generated_query = None
    /\ result_intermediate_steps = <<>>
    /\ stages = <<>>
    /\ eval_fix_raised = FALSE
    /\ lin_error = None
    /\ lin_pc = "off"

SelInit ==
    /\ EvalFixOff
    /\ GeneratorOff
    /\ EntityOff
    /\ ExecutorOff
    /\ \/ TableSelectorInit
       \/ ColumnSelectorInit
       \/ JoinSelectorInit
    /\ sel_pc = "idle"
    /\ targets = {}
    /\ selected = <<>>
    /\ sel_steps = <<>>
    /\ sel_llm_calls = 0
    /\ sel_error = None
    /\ sel_result = NoSelection

SelNext ==
    \/ SelectorStart
    \/ SelectorRaise
    \/ TableCallEach
    \/ TableCallOnce
    \/ TableReturn
    \/ ColumnCall
    \/ ColumnReturn
    \/ JoinCall
    \/ JoinReturn

SelSpec == SelInit /\ [][SelNext]_vars

GenInit ==
    EvalFixOff /\ SelectorOff /\ EntityOff /\ ExecutorOff /\ GeneratorInit

GenNext ==
    \/ GeneratorPrepare
    \/ GeneratorLLMFails
    \/ GeneratorCall
    \/ GeneratorReturn

GenSpec == GenInit /\ [][GenNext]_vars

EntInit ==
    EvalFixOff /\ SelectorOff /\ GeneratorOff /\ ExecutorOff /\ EntityInit

LinInit ==
    EvalFixOff /\ SelectorOff /\ GeneratorOff /\ EntityOff /\ ExecutorInit

LinNext ==
    \/ ExecTableSelection
    \/ ExecSkipTableSelection
    \/ ExecColumnSelection
    \/ ExecSkipColumnSelection
    \/ ExecTaskRaises
    \/ ExecSqlGeneration
    \/ ExecEvalFix
    \/ ExecSkipEvalFix
    \/ ExecPostProcess

LinSpec == LinInit /\ [][LinNext]_vars

EntNext ==
    \/ EntityValidate
    \/ EntityPostInit
    \/ DatabaseFilter
    \/ EntitySetFilter

EntSpec == EntInit /\ [][EntNext]_vars

Init ==
    EvalFixInit /\ SelectorOff /\ GeneratorOff /\ EntityOff /\ ExecutorOff

Next ==
    \/ Call
    \/ Execute
    \/ PreparePrompt
    \/ Generate
    \/ Retry
    \/ GiveUp
    \/ Finish

Spec == Init /\ [][Next]_vars

\* every step of the call is taken eventually: the interpreter runs the
\* call to its end once each db.execute and llm.generate comes back
LiveSpec == Init /\ [][Next]_vars /\ WF_vars(Next)

(***************************************************************************)
(* Properties of CoreEvalFix.__call__                                      *)
(***************************************************************************)
\* s is a prefix of t
IsPrefix(s, t) ==
    /\ Len(s) <= Len(t)
    /\ \A i \in 1..Len(s) : s[i] = t[i]

\* the call has ended without a successful execution
Exhausted == pc \in {"failed", "done"} /\ last_outcome # "ok"

\* the tasks's budget as the retrying wrapper reads it: stop_after_attempt
\* stops after the first attempt at the earliest
Attempts == IF num_retries >= 1 THEN num_retries ELSE 1

\* C1: with num_retries = N >= 0, one call makes at most N llm.generate
\* calls and at most N + 1 db.execute calls
C1_CallBudget ==
    /\ llm_calls <= num_retries
    /\ db_calls <= num_retries + 1

C3_TrialHistory ==
    [][ /\ Len(trials') <= num_retries' + 1
        /\ (pc' # "idle" => trials'[1] = query')
        /\ (pc # "idle" => IsPrefix(trials, trials')) ]_vars

\* C4: once db.execute has succeeded on trials[-1] there is no further
\* llm.generate and no further db.execute, and modified_query is the query
\* that was executed
C4_SuccessStopsAtOnce ==
    [][ /\ (last_outcome' = "ok" =>
               /\ pc' \in {"succeeded", "done"}
               /\ output' = Last(executed')
               /\ (pc' = "done" =>
                      result'.modified_query = Last(executed')))
        /\ (last_outcome = "ok" =>
               /\ db_calls' = db_calls
               /\ llm_calls' = llm_calls
               /\ trials' = trials) ]_vars

C4_Witness ==
    /\ pc = "done"
    /\ last_outcome = "ok"
    /\ Len(trials) >= 2
    /\ Last(trials) # trials[1]
    /\ result.modified_query = Last(executed)
    /\ db_calls = Len(trials)

\* C5: when an evaluation fails and no prompt template is found, the call
\* raises (it returns no result) and db.execute is not called again
C5_NoTemplateRaises ==
    [][ no_template => (db_calls' = db_calls /\ result' = NoResult) ]_vars

\* how far the call is from its end: the attempts that may still start,
\* and the steps left in the running one
PhaseRank ==
    CASE pc = "idle" -> 6
      [] pc = "evaluate" -> 5
      [] pc = "fixing" -> 4
      [] pc = "prompted" -> 3
      [] pc = "attempt_failed" -> 2
      [] pc \in {"succeeded", "failed"} -> 1
      [] OTHER -> 0

Rank ==
    IF pc \in {"succeeded", "failed", "done"} THEN PhaseRank
    ELSE (Attempts - attempt_number) * 4 + PhaseRank

Terminated ==
    /\ pc = "done"
    /\ \/ last_outcome = "ok"
       \/ StopAfterAttempt(attempt_number, num_retries)

\* C6: every call terminates, whatever db.execute and llm.generate answer,
\* at a successful execution or at the exhaustion of the budget: each step
\* brings the call nearer to its end, and the end is reached
C6_Terminates ==
    /\ [][Rank' < Rank /\ Rank' >= 0]_vars
    /\ <>Terminated

C6_Witness ==
    /\ Terminated
    /\ last_outcome # "ok"
    /\ num_retries = MaxRetries
    /\ db_calls = MaxRetries

(***************************************************************************)
(* Properties of the selectors                                             *)
(***************************************************************************)
\* C7: whatever the LLM answers, in the batched and in the per table mode,
\* the selected set that table selection or column selection returns is a
\* subset of the available set it returns
C7_SelectedSubsetOfAvailable ==
    (sel_pc = "done" /\ sel_task \in {"table", "column"}) =>
        sel_result.selected \subseteq sel_result.available

C7_Witness ==
    /\ sel_pc = "done"
    /\ sel_task = "column"
    /\ sel_result.selected # {}
    /\ \E c \in Range(selected) :
          /\ c \notin sel_result.available
          /\ \A a \in sel_result.available : Lower(a) # Lower(c)

\* the names the LLM gave to the selector, as its post processor read them
NamedByLLM == UNION {Range(sel_steps[i].processed_response) :
                        i \in 1..Len(sel_steps)}

\* C8: the selected_joins that join selection returns are a subset of
\* allowed_joins: a join the LLM names that matches no allowed join is
\* dropped, and one that matches an allowed join up to case is returned as
\* the allowed join is written
C8_JoinsSubsetOfAllowed ==
    (sel_pc = "done" /\ sel_task = "join") =>
        /\ sel_result.selected \subseteq sel_result.available
        /\ \A i \in NamedByLLM :
              (\E a \in allowed_joins : Lower(a) = Lower(i))
              => (\E a \in sel_result.selected : Lower(a) = Lower(i))

\* the places where a piece of a comma separated text may start or end
Cuts(text) == {0, Len(text) + 1} \cup {i \in 1..Len(text) : text[i] = Comma}

\* name stands between two commas of text (or an end of it) with nothing
\* but spaces around it
Listed(name, text) ==
    \E b1 \in Cuts(text), b2 \in Cuts(text) :
        /\ b1 < b2
        /\ \A i \in (b1 + 1)..(b2 - 1) : text[i] # Comma
        /\ \E l \in (b1 + 1)..(b2 - 1) :
              LET r == l + Len(name) - 1
              IN /\ r < b2
                 /\ SubSeq(text, l, r) = name
                 /\ \A i \in ((b1 + 1)..(l - 1)) \cup ((r + 1)..(b2 - 1)) :
                       text[i] = Space

\* C9: in the batched table selection the names that match no available
\* table are dropped without error: selected_tables is the set of the
\* available tables that stand in the trimmed comma separated list; when
\* none does, an empty or blank answer included, the call returns an empty
\* selection with available_tables as they are and raises nothing
C9_BatchedTableSelection ==
    (sel_task = "table" /\ ~call_for_each_table) =>
        /\ sel_pc = "raised" => sel_error \in {"LLMError", "ValueError"}
        /\ sel_pc = "done" =>
              /\ Len(sel_steps) = 1
              /\ sel_result.available = usable_tables
              /\ sel_result.selected =
                    {t \in usable_tables : Listed(t, sel_steps[1].text)}

C9_Witness ==
    /\ sel_task = "table"
    /\ ~call_for_each_table
    /\ sel_pc = "done"
    /\ usable_tables = {<<"A">>, <<"a">>}
    /\ sel_steps[1].text = <<"A", Comma, Space, "B">>
    /\ sel_result.selected = {<<"A">>}

(***************************************************************************)
(* Properties of CoreSqlGenerator.__call__                                 *)
(***************************************************************************)
\* C10: one call of CoreSqlGenerator makes exactly one llm.generate call,
\* never a second, and returns exactly one intermediate step; the
\* generated_query is the post processed text of the first candidate of
\* the first generation.  (The call that finds no prompt template raises
\* before it calls the LLM.)
C10_OneCallFirstCandidate ==
    /\ gen_llm_calls <= 1
    /\ gen_pc \in {"answered", "done"} => gen_llm_calls = 1
    /\ (gen_pc = "raised" /\ gen_llm_calls = 0) =>
          LookupTemplate(gen_template_map, gen_dialect) = None
    /\ gen_pc = "done" =>
          /\ Len(gen_result.intermediate_steps) = 1
          /\ gen_result.generated_query =
                GeneratorPostProcess(
                    gen_prompt,
                    GeneratorRawResponse(gen_prompt, gen_generations[1][1]))
          /\ gen_result.intermediate_steps[1].processed_response =
                gen_result.generated_query

C10_Witness ==
    /\ gen_pc = "done"
    /\ gen_llm_calls = 1
    /\ Len(gen_generations) = 2
    /\ Len(gen_generations[1]) = 2
    /\ gen_generations[1][1] = <<SqlQueryMark, Space, "q1">>
    /\ gen_result.generated_query = <<"q1">>

\* the LLM answered, and its answer is empty (no generation, no candidate,
\* or a blank text) or is a text the configured parser cannot parse
EmptyOrUnparseable ==
    /\ gen_llm_calls = 1
    /\ gen_error # "LLMError"
    /\ gen_pc \in {"raised", "done"}
    /\ \/ ~HasFirstCandidate(gen_generations)
       \/ /\ gen_prompt = "LANGCHAIN_ZERO_SHOT_PROMPT"
          /\ GeneratorRawResponse(gen_prompt,
                                  FirstCandidate(gen_generations)) = <<>>
       \/ ~GeneratorCanParse(
              gen_prompt,
              GeneratorRawResponse(gen_prompt,
                                   FirstCandidate(gen_generations)))

\* C11: when the LLM output of SQL generation is empty or cannot be parsed
\* by the configured parser, the call does not raise: it returns a result
\* whose generated_query is null, with one intermediate step.
C11_UnparseableGivesNull ==
    EmptyOrUnparseable =>
        /\ gen_pc = "done"
        /\ gen_error = None
        /\ gen_result.generated_query = None
        /\ Len(gen_result.intermediate_steps) = 1

\* C12: SQL generation uses the prompt template registered for the
\* database's dialect when there is one, otherwise the template registered
\* under "default", without error; when neither is registered the call
\* fails with a ValueError before any LLM call.
C12_TemplateByDialect ==
    gen_pc # "idle" =>
        /\ gen_dialect \in gen_template_map => gen_template = gen_dialect
        /\ (gen_dialect \notin gen_template_map
            /\ "default" \in gen_template_map) => gen_template = "default"
        /\ gen_template_map \cap {gen_dialect, "default"} # {} =>
              ~(gen_pc = "raised" /\ gen_llm_calls = 0)
        /\ gen_template_map \cap {gen_dialect, "default"} = {} =>
              /\ gen_pc = "raised"
              /\ gen_error = "ValueError"
              /\ gen_llm_calls = 0
              /\ gen_result = NoGeneration

\* dialect postgres with only a default template: the default is used
C12_Witness ==
    /\ gen_pc = "done"
    /\ gen_dialect = "postgres"
    /\ gen_template_map = {"default"}
    /\ gen_template = "default"
    /\ gen_llm_calls = 1

(***************************************************************************)
(* Properties of EntitySet and Database.filter                             *)
(***************************************************************************)
\* a part of a selector as the specification words it: the wildcard, or
\* one or more characters of [a-zA-Z0-9_-] and nothing else
WellFormedPart(part) ==
    \/ part = <<Star>>
    \/ /\ Len(part) > 0
       /\ \A i \in 1..Len(part) : part[i] \in NameChars

\* a selector with exactly three dot-separated well formed parts that is
\* not the fully wildcarded one
WellFormed(selector) ==
    LET dots == {i \in 1..Len(selector) : selector[i] = Dot}
    IN /\ selector # <<Star, Dot, Star, Dot, Star>>
       /\ Cardinality(dots) = 2
       /\ WellFormedPart(SubSeq(selector, 1, SetMin(dots) - 1))
       /\ WellFormedPart(SubSeq(selector, SetMin(dots) + 1,
                                SetMax(dots) - 1))
       /\ WellFormedPart(SubSeq(selector, SetMax(dots) + 1, Len(selector)))

\* C18: constructing an EntitySet fails with a validation error, and
\* yields no entity set, exactly when some selector is "*.*.*", does not
\* have exactly 3 dot-separated parts, or has a part that is neither "*"
\* nor made only of characters of [a-zA-Z0-9_-]; every other list of
\* selectors is accepted.
C18_ValidationRejectsMalformed ==
    /\ ent_pc = "validated" =>
          \A i \in 1..Len(filters) : WellFormed(filters[i])
    /\ (ent_pc = "rejected" /\ ids = filters) =>
          /\ \E i \in 1..Len(filters) : ~WellFormed(filters[i])
          /\ ent_error = "ValidationError"
          /\ exclude_entities = NoEntities

\* a concrete identifier matches a selector when each part of the selector
\* is the wildcard or the identifier's part
Matches(selector, id) ==
    LET sp == SplitOn(selector, Dot)
        ip == SplitOn(id, Dot)
    IN /\ Len(sp) = 3
       /\ \A i \in 1..3 : sp[i] = <<Star>> \/ sp[i] = ip[i]

\* the identifiers of the schema that match at least one selector
Expansion(selectors, schema) ==
    {id \in Universe(schema) :
        \E i \in 1..Len(selectors) : Matches(selectors[i], id)}

\* C19: expanding selectors against a schema yields exactly the concrete
\* identifiers of the schema that match at least one selector, each of
\* them once, whatever the order or overlap of the selectors.
C19_ExpansionIsSet ==
    ent_pc = "expanded" =>
        /\ Range(ids) = Expansion(filters, dataset_schema)
        /\ Len(ids) = Cardinality(Range(ids))

StageRank(stage) ==
    CASE stage = "table_selection" -> 1
      [] stage = "column_selection" -> 2
      [] stage = "sql_generation" -> 3
      [] stage = "eval_fix" -> 4
      [] stage = "post_processing" -> 5

\* the stages entered that leave an entry: the four tasks, unless the task
\* raised (a repair that raises is logged and leaves no entry; the final
\* clean up is no task)
StagesWithEntry ==
    SelectSeq(stages,
              LAMBDA stage : /\ stage # "post_processing"
                             /\ ~(stage = "eval_fix" /\ eval_fix_raised)
                             /\ ~(lin_pc = "raised" /\ stage = Last(stages)))

\* C13: in one run the stages are entered strictly in the order table
\* selection, column selection, SQL generation, repair, post-processing,
\* the optional ones only if configured, each at most once; the
\* intermediate_steps hold one entry per stage that returned, in that order.
C13_StagesInOrder ==
    /\ \A i, j \in 1..Len(stages) :
          i < j => StageRank(stages[i]) < StageRank(stages[j])
    /\ "table_selection" \in Range(stages) => core_table_selector
    /\ "column_selection" \in Range(stages) => core_column_selector
    /\ "eval_fix" \in Range(stages) => core_eval_fix
    /\ result_intermediate_steps = StagesWithEntry
    /\ lin_pc = "done" =>
          /\ "sql_generation" \in Range(stages)
          /\ Last(stages) = "post_processing"
          /\ core_table_selector => "table_selection" \in Range(stages)
          /\ core_column_selector => "column_selection" \in Range(stages)

C13_Witness ==
    /\ lin_pc = "done"
    /\ result_intermediate_steps =
          <<"table_selection", "column_selection", "sql_generation",
            "eval_fix">>

\* the columns of the given tables in the schema, as the column selector
\* names them
ColumnsOfTables(tables) ==
    UNION {{QualifiedName(t, c) : c \in ExecutorSchema[t]} : t \in tables}

\* C14: when both selectors are configured, the available_columns that
\* column selection reports are columns of the tables in table selection's
\* selected_tables; no column of an unselected table is offered.
C14_ColumnsOfSelectedTables ==
    (/\ core_table_selector
     /\ core_column_selector
     /\ "column_selection" \in Range(stages)
     /\ lin_pc # "raised") =>
        result_available_columns \subseteq
            ColumnsOfTables(result_selected_tables)

C14_Witness ==
    /\ lin_pc = "done"
    /\ result_available_tables = {<<"t">>, <<"u">>}
    /\ result_selected_tables = {<<"t">>}
    /\ result_available_columns =
          {QualifiedName(<<"t">>, <<"c">>), QualifiedName(<<"t">>, <<"k">>)}

\* C15: if the repair stage raises, the executor does not raise: it
\* returns the post-processed query of SQL generation, and no eval_fix
\* entry is added to intermediate_steps.
C15_RepairFailureFallsBack ==
    /\ (lin_pc = "raised" /\ stages # <<>>) => Last(stages) # "eval_fix"
    /\ eval_fix_raised =>
          /\ lin_pc \in {"post_processing", "done"}
          /\ "eval_fix" \notin Range(result_intermediate_steps)
          /\ lin_pc = "post_processing" => result_generated_query = result_sg
          /\ lin_pc = "done" => result_generated_query = ReSub(result_sg)

C15_Witness ==
    /\ lin_pc = "done"
    /\ eval_fix_raised
    /\ result_sg = Fenced(QueryBody)
    /\ result_generated_query = QueryBody
    /\ Last(result_intermediate_steps) = "sql_generation"

\* the view the executor starts from, and the view of the tables in
\* result_selected_tables only
UnfilteredView ==
    DatabaseView(ExecutorDbName, ExecutorSchema, {}, constraints)

SelectedTablesView ==
    DatabaseView(ExecutorDbName, ExecutorSchema,
                 UNION {{EntityId(ExecutorDbName, t, c) :
                            c \in ExecutorSchema[t]} :
                        t \in DOMAIN ExecutorSchema
                              \ result_selected_tables},
                 constraints)

\* C16: a selector configured as absent is skipped: its stage is not
\* entered (no task, so no LLM, is called for it), the database view is
\* left as the stage found it, and the result's available and selected
\* fields of that selector are None, not a default selection.
C16_AbsentSelectorSkipped ==
    /\ (~core_table_selector /\ lin_pc \notin {"off", "table_selection"}) =>
          /\ "table_selection" \notin Range(stages)
          /\ "table_selection" \notin Range(result_intermediate_steps)
          /\ result_available_tables = {<<None>>}
          /\ result_selected_tables = {<<None>>}
          /\ lin_pc = "column_selection" => database = UnfilteredView
    /\ (~core_column_selector
        /\ lin_pc \notin {"off", "table_selection", "column_selection"}) =>
          /\ "column_selection" \notin Range(stages)
          /\ "column_selection" \notin Range(result_intermediate_steps)
          /\ result_available_columns = {<<None>>}
          /\ result_selected_columns = {<<None>>}
          /\ database = IF core_table_selector /\ stages # <<>>
                           /\ stages[1] = "table_selection"
                           /\ ~(lin_pc = "raised" /\ Len(stages) = 1)
                        THEN SelectedTablesView
                        ELSE UnfilteredView

C16_Witness ==
    /\ lin_pc = "done"
    /\ ~core_table_selector
    /\ core_column_selector
    /\ result_available_tables = {<<None>>}
    /\ result_available_columns = AvailableColumns(UnfilteredView.descriptor)
    /\ result_generated_query = QueryBody

\* a text holds a fence
HasFence(q) ==
    \E i \in 1..(Len(q) - 2) : SubSeq(q, i, i + 2) = Fence

\* C17: the final post-processing removes all fence markers: the returned
\* generated_query holds no triple backtick, and a query Q wrapped as
\* fence, sql, blank, Q, fence is returned as exactly Q.
C17_FencesRemoved ==
    (lin_pc = "done" /\ result_generated_query # NoQuery) =>
        /\ ~HasFence(result_generated_query)
        /\ (/\ "eval_fix" \notin Range(result_intermediate_steps)
            /\ result_sg = Fenced(<<Space>> \o QueryBody)) =>
              result_generated_query = QueryBody

(***************************************************************************)
(* Further properties of CoreEvalFix.__call__                              *)
(***************************************************************************)
\* the execution attempts that failed so far
FailedAttempts == db_calls - (IF last_outcome = "ok" THEN 1 ELSE 0)

Min(a, b) == IF a <= b THEN a ELSE b

\* C21: after k failed attempts followed by termination (by success or
\* exhaustion) under the budget num_retries, trials has exactly
\* min(k + 1, num_retries + 1) elements, whatever the LLM answered.
C21_TrialHistoryLength ==
    pc = "done" => Len(trials) = Min(FailedAttempts + 1, num_retries + 1)

\* C22: every candidate a repair step appends to trials is executed
\* against the database before the call ends; the call never returns a
\* query that was generated but never executed.
C22_CandidatesAreExecuted ==
    pc = "done" =>
        /\ \A i \in 1..Len(trials) : trials[i] \in Range(executed)
        /\ result.modified_query \in Range(executed)

\* C23: every failed execution attempt, the last one before exhaustion
\* and those whose LLM response is malformed included, appends exactly one
\* intermediate-step record; on return there are as many records as
\* failed execution attempts.
C23_OneRecordPerFailedAttempt ==
    pc = "done" => Len(intermediate_steps) = FailedAttempts

\* C28: on return the records are keyed trial_1, trial_2, ... in order
\* with no gap or repeat, the record trial_k holds the candidate trials[k]
\* (index k + 1 here), original_query is trials[0] and modified_query is
\* an element of trials.
C28_RecordsMatchTrials ==
    pc = "done" =>
        /\ Len(trials) = Len(intermediate_steps) + 1
        /\ \A k \in 1..Len(intermediate_steps) :
              /\ intermediate_steps[k].trial_id = k
              /\ intermediate_steps[k].processed_response = trials[k + 1]
        /\ result.intermediate_steps = intermediate_steps
        /\ result.original_query = trials[1]
        /\ result.modified_query \in Range(trials)

C28_Witness ==
    /\ pc = "done"
    /\ Len(intermediate_steps) = 2
    /\ db_calls = 3
    /\ trials[2] # trials[3]
    /\ result.modified_query = trials[3]

(***************************************************************************)
(* Further properties of the selectors                                     *)
(***************************************************************************)
\* C24: table selection maps the names the LLM gives to the available
\* tables without regard to letter case: a name that equals an available
\* table name up to case is selected, in the schema's casing.
C24_TableNamesIgnoreCase ==
    (sel_pc = "done" /\ sel_task = "table" /\ ~call_for_each_table) =>
        \A name \in NamedByLLM :
            (\E t \in usable_tables : Lower(t) = Lower(name))
            => (\E t \in sel_result.selected : Lower(t) = Lower(name))

\* the selector puts one prompt per candidate table
PerCandidate ==
    \/ sel_task = "column"
    \/ sel_task = "table" /\ call_for_each_table

\* C25: in per-candidate selection a malformed or unparseable LLM response
\* fails only the call of that candidate: it does not end the selection,
\* the remaining candidates are still put to the LLM and a result is
\* returned.
C25_MalformedFailsOneCandidate ==
    (PerCandidate /\ sel_pc = "raised") =>
        sel_error \notin {"ValueError", "OutputParserException"}

\* the tables the per-candidate answers judged relevant
JudgedRelevant ==
    {sel_steps[i].table :
        i \in {j \in 1..Len(sel_steps) : sel_steps[j].processed_response}}

\* C26: per-candidate table selection makes exactly one LLM call per table
\* of the schema view, one after the other, and selects exactly the tables
\* judged relevant that are usable; batched table selection makes exactly
\* one LLM call for the whole list.
C26_TableSelectionCalls ==
    sel_task = "table" =>
        IF call_for_each_table
        THEN /\ sel_llm_calls <= Cardinality(DOMAIN descriptor)
             /\ sel_pc \in {"loop", "done"} => sel_llm_calls = Len(sel_steps)
             /\ \A i, j \in 1..Len(sel_steps) :
                   i # j => sel_steps[i].table # sel_steps[j].table
             /\ sel_pc = "done" =>
                   /\ sel_llm_calls = Cardinality(DOMAIN descriptor)
                   /\ {sel_steps[i].table : i \in 1..Len(sel_steps)}
                         = DOMAIN descriptor
                   /\ sel_result.selected = JudgedRelevant \cap usable_tables
        ELSE /\ sel_llm_calls <= 1
             /\ sel_pc = "done" => sel_llm_calls = 1

C26_Witness ==
    /\ sel_task = "table"
    /\ call_for_each_table
    /\ sel_pc = "done"
    /\ DOMAIN descriptor = {<<"A">>, <<"B">>}
    /\ usable_tables = {<<"A">>, <<"a">>}
    /\ JudgedRelevant = {<<"A">>, <<"B">>}
    /\ sel_result.selected = {<<"A">>}

(***************************************************************************)
(* Further properties of EntitySet                                         *)
(***************************************************************************)
\* a selector without wildcard
Concrete(selector) == \A i \in 1..Len(selector) : selector[i] # Star

\* C27: expanding an already concrete selector gives exactly that selector
\* when its database, table and column are in the schema and nothing
\* otherwise; a selector that names an absent database, table or column
\* never raises; and expanding the identifiers of an already expanded
\* entity set against the same schema gives the same set.
C27_ExpansionIdempotent ==
    /\ (ent_pc = "expanded" /\ \A i \in 1..Len(filters) : Concrete(filters[i]))
          => Range(ids) = Range(filters) \cap Universe(dataset_schema)
    /\ (ent_pc = "expanded" /\ Len(filters) = 1 /\ Concrete(filters[1]))
          => ids = IF filters[1] \in Universe(dataset_schema)
                   THEN <<filters[1]>> ELSE <<>>
    /\ ent_pc = "rejected" =>
          /\ ids = filters
          /\ \E i \in 1..Len(filters) : ~WellFormed(filters[i])
    /\ ent_pc = "subset" =>
          /\ Range(filtered_set.ids) =
                {id \in Range(ids) :
                    KeyPart(id, filtered_set.key) = filtered_set.value}
          /\ (\A id \in Range(ids) :
                  KeyPart(id, filtered_set.key) = filtered_set.value)
             => Range(filtered_set.ids) = Range(ids)

C27_Witness ==
    /\ ent_pc = "subset"
    /\ filters = <<EntityId(<<"x">>, <<"t">>, <<"c">>),
                   EntityId(<<"d">>, <<"t">>, <<"c">>)>>
    /\ <<"x">> \notin DOMAIN dataset_schema
    /\ ids = <<EntityId(<<"d">>, <<"t">>, <<"c">>)>>
    /\ filtered_set.key = "database"
    /\ filtered_set.ids = ids

(***************************************************************************)
(* Further properties of CoreLinearExecutor.__call__                       *)
(***************************************************************************)
\* C29: the final post-processing is cosmetic: a generated query that
\* holds no triple backtick is returned unchanged, the identifiers and
\* literals that hold the letters sql included, and post-processing the
\* returned query once more changes nothing.
C29_PostProcessingIsCosmetic ==
    (/\ lin_pc = "done"
     /\ result_sg # NoQuery
     /\ "eval_fix" \notin Range(result_intermediate_steps)) =>
        /\ ~HasFence(result_sg) => result_generated_query = result_sg
        /\ ReSub(result_generated_query) = result_generated_query

\* column selection has returned and the view was narrowed to its columns
ColumnSelectionDone == "column_selection" \in Range(result_intermediate_steps)

\* the tables of which column selection selected a column
TablesWithSelectedColumn ==
    {t \in DOMAIN ExecutorSchema :
        \E col \in ExecutorSchema[t] :
            QualifiedName(t, col) \in result_selected_columns}

=============================================================================
